---- MODULE Spec2Model ----
(***************************************************************************)
(* Model of the upload handlers of the video-hosting backend:              *)
(*   handlerUploadThumbnail   (src/unnamed/part_000)                       *)
(*   handlerUploadVideo       (src/handler_upload_video.go, the build with *)
(*                             the fast-start rewrite and the key          *)
(*                             {aspect}/{videoID}.mp4: variant "faststart")*)
(*   handlerUploadVideo       (src/unnamed/part_001, the build with a      *)
(*                             random key and no rewrite: variant "random")*)
(*   getVideoAspectRatio, processVideoForFastStart                         *)
(* The two handlerUploadVideo definitions have the same name in the same   *)
(* package, so one build holds one of them: the variant is fixed in Init.  *)
(* Every request is a goroutine of net/http.  The accesses to the metadata  *)
(* store (fetch of the record, update of the record) are steps of their    *)
(* own, so that requests interleave as they can in the server; the work on *)
(* files and objects whose names belong to one request is grouped into the *)
(* steps in between.  Deferred calls run inside the step that returns.     *)
(***************************************************************************)
EXTENDS Integers, Sequences, FiniteSets, TLC

\* ---------------------------------------------------------------- bounds
MaxReqs == 2          \* requests served in one behaviour
MaxDim  == 12         \* probed widths/heights 0..MaxDim (plus DimSamples)

\* net/http serves every request in a goroutine of its own: request p is the
\* p-th request the server accepted
Procs == 1..MaxReqs

\* ------------------------------------------------------- configuration
port             == "8091"
s3Bucket         == "tubely-bucket"
s3Region         == "us-east-2"
s3CfDistribution == "cdn.example.net"

\* ------------------------------------------------------------ inputs
Owner      == "u1"
PathIDs    == {"v1", "v0", "not-a-uuid"}   \* v1 exists, v0 is a UUID with no record
Tokens     == {"none", "invalid", "u1", "u2"}
ThumbTypes == {"image/jpeg", "image/png", "image/gif", "application/x-unknown", ""}
VideoTypes == {"video/mp4", "image/png", ""}
ProbeDims  == {<<1920, 1080>>, <<1080, 1920>>, <<1000, 1000>>}
DimSamples == {37, 53, 80, 90, 151, 169, 1000, 1080, 1920}
Dims       == (0..MaxDim) \cup DimSamples

VARIABLES
  variant,    \* which handlerUploadVideo the build holds
  db,         \* metadata store: video id -> record
  assets,     \* files under cfg.assetsRoot
  tmp,        \* files in os.TempDir()
  s3,         \* keys of the objects in cfg.s3Bucket
  started,    \* number of requests accepted so far
  req,        \* per request: position and local variables of the handler
  probe       \* state of the stand-alone run of getVideoAspectRatio

vars == <<variant, db, assets, tmp, s3, started, req, probe>>

\* a *string field: <<>> is nil, <<u>> points to u
NoURL == <<>>

Abs(x) == IF x < 0 THEN -x ELSE x

\* ------------------------------------------------------ pure functions

\* mime.ExtensionsByType over Go's built-in table (mime/type.go,
\* builtinTypesLower): the extensions of the type, sorted; "err" when
\* mime.ParseMediaType rejects the value; <<>> for a type with no entry.
\* ".jpeg" sorts before ".jpg".
ExtensionsByType(mediaType) ==
  CASE mediaType = ""           -> [err |-> TRUE,  exts |-> <<>>]
    [] mediaType = "image/jpeg" -> [err |-> FALSE, exts |-> <<".jpeg", ".jpg">>]
    [] mediaType = "image/png"  -> [err |-> FALSE, exts |-> <<".png">>]
    [] mediaType = "image/gif"  -> [err |-> FALSE, exts |-> <<".gif">>]
    [] OTHER                    -> [err |-> FALSE, exts |-> <<>>]

\* ThumbnailExt without the comparison of exts[0] with ".jpg" and ".png"
ThumbnailExt_NoExtCheck(mediaType) ==
  LET e == ExtensionsByType(mediaType) IN
    IF e.err \/ Len(e.exts) = 0 THEN "" ELSE e.exts[1]

\* the extension check of handlerUploadThumbnail: "" when the request is
\* rejected with 400, else exts[0]
ThumbnailExt(mediaType) ==
  LET e == ExtensionsByType(mediaType) IN
    IF e.err \/ Len(e.exts) = 0 THEN ""
    ELSE IF e.exts[1] # ".jpg" /\ e.exts[1] # ".png" THEN ""
    ELSE e.exts[1]

\* math.Abs(ratio-(16.0/9.0)) < 0.1 with ratio = float64(w)/float64(h).
\* In exact arithmetic this is 10*|9w-16h| < 9h.  The float64 comparison
\* agrees with the exact one whenever the exact distance differs from 1/10
\* (it then differs by at least 1/(90h), far above the rounding error).  At
\* exact distance 1/10 rounding decides: float64(0.1) lies above 1/10 and
\* float64(16.0/9.0) lies below 16/9, so fl(151/90) is at distance
\* 0.09999999999999987 (inside) and fl(169/90) at 0.10000000000000009
\* (outside).  h = 0 gives NaN or +Inf, for which the comparison is false.
InLandscapeBand(w, h) ==
  h > 0 /\ (10 * Abs(9 * w - 16 * h) < 9 * h \/ 90 * w = 151 * h)

\* math.Abs(ratio-(9.0/16.0)) < 0.1: exactly 10*|16w-9h| < 16h.  9/16 is a
\* float64; at exact distance 1/10 both fl(53/80)-0.5625 and
\* 0.5625-fl(37/80) round to 0.09999999999999998, below float64(0.1).
InPortraitBand(w, h) ==
  h > 0 /\ (10 * Abs(16 * w - 9 * h) < 16 * h \/ 80 * w = 53 * h \/ 80 * w = 37 * h)

\* getVideoAspectRatio with <= in place of < in the landscape test
getVideoAspectRatio_Inclusive(w, h) ==
  IF h > 0 /\ 10 * Abs(9 * w - 16 * h) <= 9 * h THEN "16:9"
  ELSE IF InPortraitBand(w, h) THEN "9:16"
  ELSE "other"

getVideoAspectRatio(w, h) ==
  IF InLandscapeBand(w, h) THEN "16:9"
  ELSE IF InPortraitBand(w, h) THEN "9:16"
  ELSE "other"

\* the switch of handlerUploadVideo on the aspect ratio
AspectString(aspectRatio) ==
  CASE aspectRatio = "16:9" -> "landscape"
    [] aspectRatio = "9:16" -> "portrait"
    [] OTHER                -> "other"

\* fmt.Sprintf("http://localhost:%s/assets/%s%s", cfg.port, randomName, ext)
ThumbnailURL(randomName, ext) ==
  [scheme |-> "http", host |-> "localhost", port |-> port,
   dir |-> "assets", name |-> randomName, ext |-> ext]

\* filepath.Join(cfg.assetsRoot, randomName+ext), relative to the assets root
AssetPath(randomName, ext) == [name |-> randomName, ext |-> ext]

\* fmt.Sprintf("%s/%s.mp4", aspectString, videoID.String())
S3KeyFastStart(aspectString, videoID) ==
  [prefix |-> aspectString, dir |-> "", name |-> <<"uuid", videoID>>, ext |-> ".mp4"]

\* fmt.Sprintf("%s/videos/%s.mp4", aspectString, randomName)
S3KeyRandom(aspectString, randomName) ==
  [prefix |-> aspectString, dir |-> "videos", name |-> <<"rand", randomName>>, ext |-> ".mp4"]

\* fmt.Sprintf("https://%s/%s", cfg.s3CfDistribution, s3Key)
VideoURLFastStart(s3Key) ==
  [scheme |-> "https", host |-> <<s3CfDistribution>>, key |-> s3Key]

\* fmt.Sprintf("https://%s.s3.%s.amazonaws.com/%s", cfg.s3Bucket, cfg.s3Region, s3Key)
VideoURLRandom(s3Key) ==
  [scheme |-> "https", host |-> <<s3Bucket, "s3", s3Region, "amazonaws.com">>, key |-> s3Key]

\* os.CreateTemp("", "tubely-upload-*.mp4"), a name no other request has, and
\* filePath[:len(filePath)-len(".mp4")] + "-faststart.mp4"
TempName(n)               == [upload |-> n, faststart |-> FALSE]
FastStartPath(filePath)   == [filePath EXCEPT !.faststart = TRUE]

\* ------------------------------------------------- external collaborators

\* auth.GetBearerToken + auth.ValidateJWT: the user of a valid token
TokenOK(token) == token \notin {"none", "invalid"}

\* cfg.db.GetVideo: an error for an identifier with no record
GetVideoErr(videoID) == videoID \notin DOMAIN db

\* cfg.db.UpdateVideo: replaces the whole record of video.ID
UpdateVideo(videoID, video) == [db EXCEPT ![videoID] = video]

\* ------------------------------------------------------------ requests
NoVideo == [UserID |-> "", ThumbnailURL |-> NoURL, VideoURL |-> NoURL]
NoKey   == [prefix |-> "", dir |-> "", name |-> <<"none">>, ext |-> ""]
NoFile  == [upload |-> 0, faststart |-> FALSE]

Idle ==
  [pc |-> "idle", handler |-> "", videoID |-> "", userID |-> "",
   header |-> FALSE, mediaType |-> "", ext |-> "", video |-> NoVideo, randomName |-> 0,
   tempFile |-> NoFile, deferred |-> {}, aspectString |-> "", s3Key |-> NoKey,
   url |-> NoURL, status |-> 0, failedStep |-> ""]

\* respondWithError / respondWithJSON followed by return: the deferred
\* os.Remove calls run, the request is over
Respond(r, code, step) ==
  [r EXCEPT !.pc = "done", !.status = code, !.failedStep = step, !.deferred = {}]

InitHandlers ==
  /\ variant \in {"faststart", "random"}
  /\ db = [v \in {"v1"} |-> [UserID |-> Owner, ThumbnailURL |-> NoURL, VideoURL |-> NoURL]]
  /\ assets = {}
  /\ tmp = {}
  /\ s3 = {}
  /\ started = 0
  /\ req = [p \in Procs |-> Idle]

Init ==
  /\ InitHandlers
  /\ probe = [width |-> 0, height |-> 0, aspectRatio |-> "", aspectString |-> ""]

\* ---------------------------------------------- handlerUploadThumbnail

\* Lines 75-116, once the request is parsed: fetch the record, ownership,
\* random name, os.Create, io.Copy, the URL.  rand.Read gives every request
\* 32 random bytes of its own: the name of request p is p, and no other
\* request reads or writes the file.
ThumbnailStore(p, r) ==
  IF GetVideoErr(r.videoID)
  THEN /\ req' = [req EXCEPT ![p] = Respond(r, 404, "getVideo")]
       /\ UNCHANGED assets
  ELSE LET r1 == [r EXCEPT !.video = db[r.videoID]] IN
       IF r1.video.UserID # r.userID
       THEN /\ req' = [req EXCEPT ![p] = Respond(r1, 401, "owner")]
            /\ UNCHANGED assets
       ELSE \/ /\ req' = [req EXCEPT ![p] = Respond(r1, 500, "rand")]
               /\ UNCHANGED assets
            \/ LET r2 == [r1 EXCEPT !.randomName = p] IN
               /\ \/ /\ req' = [req EXCEPT ![p] = Respond(r2, 500, "create")]
                     /\ assets' = assets
                  \/ /\ req' = [req EXCEPT ![p] = Respond(r2, 500, "copy")]
                     /\ assets' = assets \cup {AssetPath(r2.randomName, r2.ext)}
                  \/ /\ req' = [req EXCEPT ![p] =
                          [r2 EXCEPT !.url = <<ThumbnailURL(r2.randomName, r2.ext)>>,
                                     !.pc = "update"]]
                     /\ assets' = assets \cup {AssetPath(r2.randomName, r2.ext)}

\* lines 17-116: path value, token, multipart form, file field, media type,
\* then ThumbnailStore
ThumbnailFetch(p) ==
  /\ req[p].pc = "idle"
  /\ p = started + 1
  /\ started' = started + 1
  /\ LET r == [Idle EXCEPT !.handler = "thumbnail"] IN
     \E id \in PathIDs :
       IF id = "not-a-uuid"
       THEN /\ req' = [req EXCEPT ![p] = Respond(r, 400, "parseID")]
            /\ UNCHANGED assets
       ELSE \E token \in Tokens :
         IF ~TokenOK(token)
         THEN /\ req' = [req EXCEPT ![p] = Respond([r EXCEPT !.videoID = id], 401, "token")]
              /\ UNCHANGED assets
         ELSE LET r1 == [r EXCEPT !.videoID = id, !.userID = token] IN
           \/ /\ req' = [req EXCEPT ![p] = Respond(r1, 400, "parseForm")]
              /\ UNCHANGED assets
           \/ /\ req' = [req EXCEPT ![p] = Respond(r1, 400, "formFile")]
              /\ UNCHANGED assets
           \/ \E mediaType \in ThumbTypes :
                LET r2 == [r1 EXCEPT !.header = TRUE, !.mediaType = mediaType] IN
                IF ThumbnailExt(mediaType) = ""
                THEN /\ req' = [req EXCEPT ![p] = Respond(r2, 400, "mediaType")]
                     /\ UNCHANGED assets
                ELSE ThumbnailStore(p, [r2 EXCEPT !.ext = ThumbnailExt(mediaType)])
  /\ UNCHANGED <<variant, db, tmp, s3, probe>>

\* ThumbnailUpdate storing a record built anew instead of the fetched one
ThumbnailUpdate_FreshRecord(p) ==
  /\ req[p].pc = "update"
  /\ req[p].handler = "thumbnail"
  /\ LET r  == req[p]
         r1 == [r EXCEPT !.video = [NoVideo EXCEPT !.UserID = r.video.UserID,
                                                   !.ThumbnailURL = r.url]] IN
     \/ /\ req' = [req EXCEPT ![p] = Respond(r1, 500, "update")]
        /\ db' = db
     \/ /\ req' = [req EXCEPT ![p] = Respond(r1, 200, "")]
        /\ db' = UpdateVideo(r.videoID, r1.video)
  /\ UNCHANGED <<variant, assets, tmp, s3, started, probe>>

\* lines 118-126: video.ThumbnailURL = &thumbnailURL; cfg.db.UpdateVideo(video)
ThumbnailUpdate(p) ==
  /\ req[p].pc = "update"
  /\ req[p].handler = "thumbnail"
  /\ LET r  == req[p]
         r1 == [r EXCEPT !.video.ThumbnailURL = r.url] IN
     \/ /\ req' = [req EXCEPT ![p] = Respond(r1, 500, "update")]
        /\ db' = db
     \/ /\ req' = [req EXCEPT ![p] = Respond(r1, 200, "")]
        /\ db' = UpdateVideo(r.videoID, r1.video)
  /\ UNCHANGED <<variant, assets, tmp, s3, started, probe>>

\* ------------------------------------------------- handlerUploadVideo
\* Lines 24-126 are the same in handler_upload_video.go and part_001.

\* the deferred os.Remove calls of a returning request
RemoveDeferred(r) == tmp \ r.deferred

\* lines 24-86: path value, token, fetch the record, ownership, file field,
\* media type
VideoFetch(p) ==
  /\ req[p].pc = "idle"
  /\ p = started + 1
  /\ started' = started + 1
  /\ LET r == [Idle EXCEPT !.handler = "video"] IN
     \E id \in PathIDs :
       IF id = "not-a-uuid"
       THEN req' = [req EXCEPT ![p] = Respond(r, 400, "parseID")]
       ELSE \E token \in Tokens :
         IF ~TokenOK(token)
         THEN req' = [req EXCEPT ![p] = Respond([r EXCEPT !.videoID = id], 401, "token")]
         ELSE LET r1 == [r EXCEPT !.videoID = id, !.userID = token] IN
           IF GetVideoErr(id)
           THEN req' = [req EXCEPT ![p] = Respond(r1, 500, "getVideo")]
           ELSE LET r2 == [r1 EXCEPT !.video = db[id]] IN
             IF r2.video.UserID # r2.userID
             THEN req' = [req EXCEPT ![p] = Respond(r2, 401, "owner")]
             ELSE \/ req' = [req EXCEPT ![p] = Respond(r2, 400, "formFile")]
                  \/ \E mediaType \in VideoTypes :
                       LET r3 == [r2 EXCEPT !.header = TRUE, !.mediaType = mediaType] IN
                       req' = [req EXCEPT ![p] =
                         IF mediaType = "" THEN Respond(r3, 400, "mediaType")
                         ELSE IF mediaType # "video/mp4" THEN Respond(r3, 400, "mediaType")
                         ELSE [r3 EXCEPT !.pc = "createTemp"]]
  /\ UNCHANGED <<variant, db, assets, tmp, s3, probe>>

\* lines 88-126: os.CreateTemp, the deferred os.Remove, io.Copy,
\* getVideoAspectRatio, the switch, tempFile.Seek
VideoBuffer(p) ==
  /\ req[p].pc = "createTemp"
  /\ req[p].handler = "video"
  /\ LET r == req[p] IN
     \/ /\ req' = [req EXCEPT ![p] = Respond(r, 500, "createTemp")]
        /\ UNCHANGED tmp
     \/ LET r1 == [r EXCEPT !.tempFile = TempName(p),
                            !.deferred = {TempName(p)}] IN
        /\ \/ /\ req' = [req EXCEPT ![p] = Respond(r1, 500, "copy")]
              /\ tmp' = (tmp \cup {r1.tempFile}) \ r1.deferred
           \/ /\ req' = [req EXCEPT ![p] = Respond(r1, 500, "probe")]
              /\ tmp' = (tmp \cup {r1.tempFile}) \ r1.deferred
           \/ \E d \in ProbeDims :
                LET r2 == [r1 EXCEPT !.aspectString =
                                        AspectString(getVideoAspectRatio(d[1], d[2]))] IN
                \/ /\ req' = [req EXCEPT ![p] = Respond(r2, 500, "seek")]
                   /\ tmp' = (tmp \cup {r2.tempFile}) \ r2.deferred
                \/ /\ req' = [req EXCEPT ![p] =
                        [r2 EXCEPT !.pc = IF variant = "faststart" THEN "faststart"
                                          ELSE "putRandom"]]
                   /\ tmp' = tmp \cup {r2.tempFile}
  /\ UNCHANGED <<variant, db, assets, s3, started, probe>>

\* processVideoForFastStart (lines 221-233): ffmpeg writes outputFilePath;
\* when ffmpeg exits non-zero it may already have created the output file.
\* The result: the path (none with an error) and the files in the temp directory.
processVideoForFastStart(filePath, files, ok, written) ==
  IF ok THEN [path |-> <<FastStartPath(filePath)>>, files |-> files \cup {FastStartPath(filePath)}]
  ELSE [path |-> <<>>,
        files |-> IF written THEN files \cup {FastStartPath(filePath)} ELSE files]

\* handler_upload_video.go lines 128-159: the rewrite, the second deferred
\* os.Remove, the key and the URL, os.Open, PutObject
VideoFastStartPut(p) ==
  /\ req[p].pc = "faststart"
  /\ req[p].handler = "video"
  /\ variant = "faststart"
  /\ LET r == req[p] IN
     \E ok \in BOOLEAN, written \in BOOLEAN :
       LET out == processVideoForFastStart(r.tempFile, tmp, ok, written) IN
       IF out.path = <<>>
       THEN /\ req' = [req EXCEPT ![p] = Respond(r, 500, "faststart")]
            /\ tmp' = out.files \ r.deferred
            /\ s3' = s3
       ELSE /\ written
            /\ LET r1 == [r EXCEPT !.deferred = r.deferred \cup {out.path[1]},
                            !.s3Key = S3KeyFastStart(r.aspectString, r.videoID),
                            !.url = <<VideoURLFastStart(S3KeyFastStart(r.aspectString, r.videoID))>>] IN
               \/ /\ req' = [req EXCEPT ![p] = Respond(r1, 500, "open")]
                  /\ tmp' = out.files \ r1.deferred
                  /\ s3' = s3
               \/ /\ req' = [req EXCEPT ![p] = Respond(r1, 500, "put")]
                  /\ tmp' = out.files \ r1.deferred
                  /\ s3' = s3
               \/ /\ req' = [req EXCEPT ![p] = [r1 EXCEPT !.pc = "update"]]
                  /\ tmp' = out.files
                  /\ s3' = s3 \cup {r1.s3Key}
  /\ UNCHANGED <<variant, db, assets, started, probe>>

\* handler_upload_video.go lines 160-169: video.VideoURL = &videoURL,
\* cfg.db.UpdateVideo(video)
VideoUpdate(p) ==
  /\ req[p].pc = "update"
  /\ req[p].handler = "video"
  /\ variant = "faststart"
  /\ LET r  == req[p]
         r1 == [r EXCEPT !.video.VideoURL = r.url] IN
     \/ /\ req' = [req EXCEPT ![p] = Respond(r1, 500, "update")]
        /\ db' = db
     \/ /\ req' = [req EXCEPT ![p] = Respond(r1, 200, "")]
        /\ db' = UpdateVideo(r.videoID, r1.video)
  /\ tmp' = RemoveDeferred(req[p])
  /\ UNCHANGED <<variant, assets, s3, started, probe>>

\* part_001 lines 127-149: rand.Read, the key, PutObject whose error is
\* overwritten before it is read, the URL, video.VideoURL = &videoURL
VideoPutRandom(p) ==
  /\ req[p].pc = "putRandom"
  /\ req[p].handler = "video"
  /\ variant = "random"
  /\ LET r == req[p] IN
     \/ /\ req' = [req EXCEPT ![p] = Respond(r, 500, "rand")]
        /\ tmp' = RemoveDeferred(r)
        /\ UNCHANGED s3
     \/ \E putOK \in BOOLEAN :
          LET key == S3KeyRandom(r.aspectString, p) IN
            /\ s3' = IF putOK THEN s3 \cup {key} ELSE s3
          /\ tmp' = tmp
          /\ req' = [req EXCEPT ![p] =
               [r EXCEPT !.randomName = p, !.s3Key = key,
                         !.failedStep = IF putOK THEN "" ELSE "put",
                         !.url = <<VideoURLRandom(key)>>,
                         !.video.VideoURL = <<VideoURLRandom(key)>>,
                         !.pc = "updateRandom"]]
  /\ UNCHANGED <<variant, db, assets, started, probe>>

\* part_001 lines 151-159: cfg.db.UpdateVideo(video)
VideoUpdateRandom(p) ==
  /\ req[p].pc = "updateRandom"
  /\ req[p].handler = "video"
  /\ variant = "random"
  /\ LET r == req[p] IN
     \/ /\ req' = [req EXCEPT ![p] = Respond(r, 500, "update")]
        /\ db' = db
     \/ /\ req' = [req EXCEPT ![p] = [Respond(r, 200, "") EXCEPT !.failedStep = r.failedStep]]
        /\ db' = UpdateVideo(r.videoID, r.video)
  /\ tmp' = RemoveDeferred(req[p])
  /\ UNCHANGED <<variant, assets, s3, started, probe>>

\* ------------------------------------- getVideoAspectRatio on its own
\* one call of getVideoAspectRatio on a probed first stream, and the key
\* prefix the handler derives from the result (lines 104-119)
InitProbe ==
  /\ InitHandlers
  /\ probe \in [width : Dims, height : Dims, aspectRatio : {""}, aspectString : {""}]

ProbeRun ==
  /\ probe.aspectRatio = ""
  /\ probe' = [probe EXCEPT
       !.aspectRatio  = getVideoAspectRatio(probe.width, probe.height),
       !.aspectString = AspectString(getVideoAspectRatio(probe.width, probe.height))]
  /\ UNCHANGED <<variant, db, assets, tmp, s3, started, req>>

NextProbe == ProbeRun

SpecProbe == InitProbe /\ [][NextProbe]_vars

Next ==
  \E p \in Procs :
    \/ ThumbnailFetch(p)
    \/ ThumbnailUpdate(p)
    \/ VideoFetch(p)
    \/ VideoBuffer(p)
    \/ VideoFastStartPut(p)
    \/ VideoUpdate(p)
    \/ VideoPutRandom(p)
    \/ VideoUpdateRandom(p)

Spec == Init /\ [][Next]_vars

\* ================================================================ claims

Done(p)         == req[p].pc = "done"
Authenticated(p) == req[p].userID # ""
KnownVideo(p)   == req[p].videoID \in DOMAIN db
IsOwner(p)      == KnownVideo(p) /\ req[p].userID = db[req[p].videoID].UserID
SupportedTypes  == {"image/jpeg", "image/png"}
PipelineSteps   == {"createTemp", "copy", "probe", "seek", "faststart", "open", "put", "update"}
\* the step in which request p returns
Returns(p)      == req[p].pc # "done" /\ req'[p].pc = "done"
\* the step in which request p's cfg.db.UpdateVideo succeeds
Updates(p)      == req[p].pc \in {"update", "updateRandom"} /\ req'[p].pc = "done"
                   /\ req'[p].status = 200

\* C1 (as claimed): a finished request of an authenticated user who does not
\* own the record was answered with 401, whatever its form and content type.
C1_NonOwnerGets401 ==
  \A p \in Procs :
    (Done(p) /\ Authenticated(p) /\ KnownVideo(p) /\ ~IsOwner(p)) => req[p].status = 401

\* C2 (as claimed): a video upload that returns after one of the pipeline
\* steps failed returns 500 and its returning step leaves the record alone.
C2_FailedStepLeavesRecord ==
  [][\A p \in Procs :
       (Returns(p) /\ req'[p].handler = "video" /\ req'[p].failedStep \in PipelineSteps)
         => (req'[p].status = 500 /\ db' = db)]_vars

\* C3 (as claimed): when a video upload has returned, neither its buffered
\* upload file nor its fast-start output file is left in the temp directory.
C3_TempFilesRemoved ==
  \A p \in Procs :
    (Done(p) /\ req[p].handler = "video")
      => (req[p].tempFile \notin tmp /\ FastStartPath(req[p].tempFile) \notin tmp)

\* C4 (as claimed): a thumbnail upload by the owner with a parseable form and
\* content type image/jpeg or image/png, in which no I/O step failed, returned
\* 200 with the URL http://localhost:{port}/assets/{key}{ext} of the file it
\* wrote under the assets root.
C4_SupportedTypesSucceed ==
  \A p \in Procs :
    (Done(p) /\ req[p].handler = "thumbnail" /\ req[p].header /\ IsOwner(p)
       /\ req[p].mediaType \in SupportedTypes
       /\ req[p].failedStep \notin {"rand", "create", "copy", "update"})
      => /\ req[p].status = 200
         /\ req[p].video.ThumbnailURL = <<ThumbnailURL(req[p].randomName, req[p].ext)>>
         /\ AssetPath(req[p].randomName, req[p].ext) \in assets

\* C5: every step of an authenticated thumbnail upload whose form was parsed
\* and whose declared content type is neither image/jpeg nor image/png ends
\* the request with 400, adds no file under the assets root and leaves the
\* metadata store unchanged.
C5_UnsupportedTypeRejected ==
  [][\A p \in Procs :
       (req'[p] # req[p] /\ req'[p].handler = "thumbnail" /\ req'[p].header
          /\ req'[p].mediaType \notin SupportedTypes)
         => (req'[p].pc = "done" /\ req'[p].status = 400 /\ assets' = assets /\ db' = db)]_vars

\* C5 witness: an upload declared image/gif was rejected
C5_Witness ==
  \E p \in Procs :
    Done(p) /\ req[p].handler = "thumbnail" /\ req[p].header
      /\ req[p].mediaType = "image/gif" /\ req[p].status = 400 /\ assets = {}

\* C6 (as claimed): a request whose record lookup failed because the
\* identifier is unknown to the metadata store was answered with 404.
C6_UnknownVideoIs404 ==
  \A p \in Procs :
    (Done(p) /\ req[p].failedStep = "getVideo") => req[p].status = 404

\* C7 (as claimed): two successful video uploads for the same identifier
\* used two different storage keys, hence two objects and two URLs.
C7_TwoUploadsTwoObjects ==
  \A p, q \in Procs :
    (p # q /\ Done(p) /\ Done(q) /\ req[p].handler = "video" /\ req[q].handler = "video"
       /\ req[p].status = 200 /\ req[q].status = 200 /\ req[p].videoID = req[q].videoID)
      => (req[p].s3Key # req[q].s3Key /\ req[p].url # req[q].url)

\* C8 (as claimed): for positive width and height the result is "16:9"
\* exactly when |w/h - 16/9| < 1/10, i.e. 151/90 < w/h < 169/90, and
\* otherwise "9:16" exactly when |w/h - 9/16| < 1/10, i.e. 37/80 < w/h < 53/80.
C8_ExactBands ==
  LET w == probe.width
      h == probe.height
      L == 151 * h < 90 * w /\ 90 * w < 169 * h
      P == 37 * h < 80 * w /\ 80 * w < 53 * h
  IN (probe.aspectRatio # "" /\ w > 0 /\ h > 0)
       => /\ (probe.aspectRatio = "16:9") = L
          /\ (probe.aspectRatio = "9:16") = (~L /\ P)

\* C8 (amended): for positive width and height the result is "16:9" exactly
\* when 151/90 <= w/h < 169/90, otherwise "9:16" exactly when
\* 37/80 <= w/h <= 53/80, otherwise "other"; the bands do not overlap even
\* with their end points; 1920x1080 is landscape, 1080x1920 portrait,
\* 1000x1000 other; the key prefix is landscape, portrait, other accordingly.
C8_Float64Bands ==
  LET w == probe.width
      h == probe.height
      L == 151 * h <= 90 * w /\ 90 * w < 169 * h
      P == 37 * h <= 80 * w /\ 80 * w <= 53 * h
  IN (probe.aspectRatio # "" /\ w > 0 /\ h > 0)
       => /\ probe.aspectRatio = (IF L THEN "16:9" ELSE IF P THEN "9:16" ELSE "other")
          /\ ~((151 * h <= 90 * w /\ 90 * w <= 169 * h) /\ P)
          /\ (w = 1920 /\ h = 1080) => probe.aspectString = "landscape"
          /\ (w = 1080 /\ h = 1920) => probe.aspectString = "portrait"
          /\ (w = 1000 /\ h = 1000) => probe.aspectString = "other"
          /\ probe.aspectString =
               (IF L THEN "landscape" ELSE IF P THEN "portrait" ELSE "other")

\* C8 witness: 151x90, at distance exactly 1/10 from 16/9, was classified 16:9
C8_Witness ==
  probe.width = 151 /\ probe.height = 90 /\ probe.aspectRatio = "16:9"
    /\ probe.aspectString = "landscape"

\* C9 (as claimed): whenever a record's video URL is set, the object store
\* holds an object under the key the URL names.
C9_RecordURLHasObject ==
  \A v \in DOMAIN db :
    db[v].VideoURL # NoURL => db[v].VideoURL[1].key \in s3

\* C10 (as claimed): a successful thumbnail update leaves the record's video
\* URL as it was in the store, and a successful video update leaves the
\* record's thumbnail URL as it was in the store.
C10_OnlyOwnField ==
  [][\A p \in Procs :
       Updates(p) =>
         IF req[p].handler = "thumbnail"
         THEN db'[req[p].videoID].VideoURL = db[req[p].videoID].VideoURL
         ELSE db'[req[p].videoID].ThumbnailURL = db[req[p].videoID].ThumbnailURL]_vars

\* C10 (amended): a successful update stores the whole record the handler
\* fetched earlier with the handler's own URL field replaced by its new URL:
\* the other URL field gets the value fetched, so it is left as it was in the
\* store exactly when no other update changed it since the fetch.
C10_WholeRecordWrite ==
  [][\A p \in Procs :
       Updates(p) =>
         LET v == req[p].videoID IN
         /\ db'[v].UserID = db[v].UserID
         /\ IF req[p].handler = "thumbnail"
            THEN /\ db'[v].ThumbnailURL = req[p].url
                 /\ db'[v].VideoURL = req[p].video.VideoURL
            ELSE /\ db'[v].VideoURL = req[p].url
                 /\ db'[v].ThumbnailURL = req[p].video.ThumbnailURL]_vars

\* C10 witness: a thumbnail upload and a video upload of the owner both
\* returned 200 and the record lacks the new URL of one of them
C10_Witness ==
  \E p, q \in Procs :
    /\ Done(p) /\ req[p].handler = "thumbnail" /\ req[p].status = 200
    /\ Done(q) /\ req[q].handler = "video" /\ req[q].status = 200
    /\ req[p].videoID = req[q].videoID
    /\ \/ db[req[p].videoID].ThumbnailURL # req[p].url
       \/ db[req[p].videoID].VideoURL # req[q].url


====
